---------------------------- MODULE Spec2Model ----------------------------
(***************************************************************************)
(* A model of MOSFiT's Parameter (mosfit/modules/parameters/parameter.py)  *)
(* and of the Blackbody SED (mosfit/modules/seds/blackbody.py).            *)
(*                                                                         *)
(* Numbers are exact: a number is a record [k, n, d] that stands for       *)
(*   k = "rat"  : the rational n/d,                                        *)
(*   k = "ln2"  : (n/d) * ln 2      (what np.log gives on a power of 2),   *)
(*   k = "pow2" : 2^(n/d), n/d not an integer (what np.exp gives back),    *)
(*   k = "none" : Python's None.                                           *)
(* Floating-point rounding is not modelled; np.log of a number that is not *)
(* positive (nan, -inf) is outside the inputs drawn here.                  *)
(***************************************************************************)
EXTENDS Integers, Sequences, FiniteSets, TLC

VARIABLES
    \* ---- Parameter instance ----
    ppc,               \* "new" | "ready" | "raised" (constructor raised ValueError)
    kwargs,            \* the keyword arguments the constructor was called with
    _min_value,
    _max_value,
    _value,
    _log,
    _reference_value,
    _clipped_warning,
    printed,           \* printer messages emitted so far, per message name
    lastCall,          \* the last call on the instance, its arguments and result
    clipChanged,       \* history: some fraction(clip=True) call had its result changed by the clip
    prevReq,           \* history: the mapping of the receive_requests call before the last one
    lastReq,           \* history: the mapping of the last receive_requests call
    nReq,              \* history: receive_requests calls so far (counted up to 2)
    \* ---- Blackbody instance ----
    bpc,               \* "idle" | "loop" | "merge" | "raised" (TypeError left process())
    _luminosities,
    _band_indices,
    _frequencies,
    _radius_phot,
    _temperature_phot,
    seds,              \* process()'s local list of fresh spectra
    evaled,            \* process()'s local compile flag
    li,                \* process()'s loop index (0-based, as enumerate gives it)
    ncall,             \* process() calls started so far
    handed,            \* what the current call gave add_to_existing_seds
    nPlanck,           \* history: Planck evaluations of the current call
    prevLen            \* history: the epoch count of the call before the current one

pvars == <<ppc, kwargs, _min_value, _max_value, _value, _log, _reference_value,
           _clipped_warning, printed, lastCall, clipChanged, prevReq, lastReq, nReq>>
bvars == <<bpc, _luminosities, _band_indices, _frequencies, _radius_phot,
           _temperature_phot, seds, evaled, li, ncall, handed, nPlanck,
           prevLen>>
vars == <<pvars, bvars>>

---------------------------------------------------------------------------
(* Exact numbers *)

Abs(i) == IF i < 0 THEN -i ELSE i

RECURSIVE Gcd(_, _)
Gcd(a, b) == IF b = 0 THEN a ELSE Gcd(b, a % b)

\* The number of kind k and magnitude n/d, in lowest terms with d > 0.  A zero of
\* any kind is the rational 0; 2^q with q an integer is a rational.
RECURSIVE TwoTo(_)
TwoTo(e) == IF e = 0 THEN 1 ELSE 2 * TwoTo(e - 1)

Num(k, n, d) ==
    LET s == IF d < 0 THEN -1 ELSE 1
        g == Gcd(Abs(n), Abs(d))
        nn == (s * n) \div g
        dd == (s * d) \div g
    IN  IF nn = 0 /\ k # "pow2" THEN [k |-> "rat", n |-> 0, d |-> 1]
        ELSE IF k = "pow2" /\ dd = 1
             THEN (IF nn >= 0 THEN [k |-> "rat", n |-> TwoTo(nn), d |-> 1]
                   ELSE [k |-> "rat", n |-> 1, d |-> TwoTo(-nn)])
        ELSE [k |-> k, n |-> nn, d |-> dd]

Rat(n, d) == Num("rat", n, d)
None == [k |-> "none", n |-> 0, d |-> 1]
IsZero(a) == a.k = "rat" /\ a.n = 0

\* The kind of a sum or difference: both operands of one kind, or one of them 0.
KindOf(a, b) == IF IsZero(a) THEN b.k ELSE a.k

NumAdd(a, b) == Num(KindOf(a, b), a.n * b.d + b.n * a.d, a.d * b.d)
NumSub(a, b) == Num(KindOf(a, b), a.n * b.d - b.n * a.d, a.d * b.d)
\* f * x with f rational: the product keeps x's kind.
NumMul(f, x) == Num(x.k, f.n * x.n, f.d * x.d)
\* a / b with a and b of one kind (or a = 0): a rational.
NumDiv(a, b) == Num("rat", a.n * b.d, a.d * b.n)
NumLt(a, b) == a.n * b.d < b.n * a.d
NumLe(a, b) == a.n * b.d <= b.n * a.d
NumMax(a, b) == IF NumLt(a, b) THEN b ELSE a
NumMin(a, b) == IF NumLt(b, a) THEN b ELSE a

\* log2 of a power of two n = 2^e.
RECURSIVE Log2(_)
Log2(n) == IF n <= 1 THEN 0 ELSE 1 + Log2(n \div 2)

\* np.log on a positive power of two (rational 2^e, or 2^(n/d)).
NpLog(x) ==
    IF x.k = "pow2" THEN Num("ln2", x.n, x.d)
    ELSE Num("ln2", Log2(x.n) - Log2(x.d), 1)

\* np.exp on q * ln 2.
NpExp(x) == Num("pow2", x.n, x.d)

\* np.clip(x, lo, hi) is minimum(maximum(x, lo), hi): hi wins when lo > hi.
NpClip(x, lo, hi) == NumMin(NumMax(x, lo), hi)


---------------------------------------------------------------------------
(* Parameter: mosfit/modules/parameters/parameter.py *)

Name == "x"

MaxMessages == 2    \* a message counter stops the model at this many
FracDen == 2        \* fractions are the multiples of 1/FracDen in [-1/FracDen, 1 + 1/FracDen]
MaxExp == 3         \* values given to fraction() are 2^e, e in -1..MaxExp
MaxReqVal == 2      \* request values are 1..MaxReqVal, and None

Zero == Rat(0, 1)
One == Rat(1, 1)

BoundVals == {None, Rat(-1, 1), Rat(0, 1), Rat(1, 1), Rat(4, 1)}
FixedVals == {None, Rat(7, 1)}
\* Every constructor call: an absent keyword reads as None (log: as False).
KwAll == [min_value : BoundVals, max_value : BoundVals, value : FixedVals, log : BOOLEAN]
\* The constructor calls of the mailbox specification: fixed, one bound, a range, a log range.
KwMailbox ==
    {kw \in KwAll : /\ kw.value = Rat(7, 1)
                    /\ <<kw.min_value, kw.max_value>> \in
                          {<<None, None>>, <<Rat(1, 1), None>>, <<Rat(1, 1), Rat(4, 1)>>}}
Fracs == {Rat(k, FracDen) : k \in -1 .. FracDen + 1}
ValInputs == {Num("pow2", e, 1) : e \in -1 .. MaxExp}

ReqKeys == {"a", "b"}
ReqVals == {Rat(v, 1) : v \in 1 .. MaxReqVal} \cup {None}
\* A request mapping, in insertion order: a sequence of <<key, value>>, keys distinct.
ReqMaps ==
    {<<>>}
    \cup {<<<<k, v>>>> : k \in ReqKeys, v \in ReqVals}
    \cup {m \in {<<<<k1, v1>>, <<k2, v2>>>> :
                    k1 \in ReqKeys, k2 \in ReqKeys, v1 \in ReqVals, v2 \in ReqVals} :
             m[1][1] # m[2][1]}
ReqFew == {<<<<"a", Rat(1, 1)>>>>, <<<<"a", None>>>>}

NoCall == [op |-> "", num |-> None, flag |-> FALSE, ret |-> None, out |-> <<>>,
           err |-> "", warned |-> FALSE, of |-> None]

\* __init__, lines 17-23: the bounds, and min == max read as a fixed value.
SameBounds(kw) ==
    kw.min_value # None /\ kw.max_value # None /\ kw.min_value = kw.max_value
\* __init__, line 22 and then line 24: self._value = kwargs.get('value', None).
InitValue(kw) ==
    LET v22 == IF SameBounds(kw) THEN kw.min_value ELSE None
        v24 == kw.value
    IN  v24
InitMin(kw) == IF SameBounds(kw) THEN None ELSE kw.min_value
InitMax(kw) == IF SameBounds(kw) THEN None ELSE kw.max_value
\* A faulty variant of InitRaises: the range check written with < for <=
InitRaises_Strict(kw) ==
    /\ kw.log /\ InitMin(kw) # None /\ InitMax(kw) # None
    /\ (NumLt(InitMin(kw), Zero) \/ NumLt(InitMax(kw), Zero))
\* __init__, lines 29-33: the log range check.
InitRaises(kw) ==
    /\ kw.log /\ InitMin(kw) # None /\ InitMax(kw) # None
    /\ (NumLe(InitMin(kw), Zero) \/ NumLe(InitMax(kw), Zero))
InitLogs(kw) == kw.log /\ InitMin(kw) # None /\ InitMax(kw) # None

Construct(KW) ==
    /\ ppc = "new"
    /\ \E kw \in KW :
        /\ kwargs' = kw
        /\ _value' = InitValue(kw)
        /\ _log' = kw.log
        /\ printed' = [printed EXCEPT !.min_max_same = IF SameBounds(kw) THEN 1 ELSE 0]
        /\ IF InitRaises(kw)
           THEN /\ ppc' = "raised"
                /\ _min_value' = InitMin(kw)
                /\ _max_value' = InitMax(kw)
                /\ lastCall' = [NoCall EXCEPT !.op = "__init__", !.err = "ValueError"]
           ELSE /\ ppc' = "ready"
                /\ _min_value' = IF InitLogs(kw) THEN NpLog(InitMin(kw)) ELSE InitMin(kw)
                /\ _max_value' = IF InitLogs(kw) THEN NpLog(InitMax(kw)) ELSE InitMax(kw)
                /\ lastCall' = [NoCall EXCEPT !.op = "__init__"]
    /\ UNCHANGED <<_reference_value, _clipped_warning, clipChanged, prevReq, lastReq, nReq>>

\* fix_value, lines 39-43.
FixValue ==
    /\ ppc = "ready"
    /\ \E v \in FixedVals \ {None} :
        /\ _max_value' = None
        /\ _min_value' = None
        /\ _value' = v
        /\ lastCall' = [NoCall EXCEPT !.op = "fix_value", !.num = v]
    /\ UNCHANGED <<ppc, kwargs, _log, _reference_value, _clipped_warning, printed,
                   clipChanged, prevReq, lastReq, nReq>>

HasRange == _min_value # None /\ _max_value # None

\* A faulty variant of value: the offset min_value left out
value_NoOffset(f) ==
    LET v == NpClip(NumMul(f, NumSub(_max_value, _min_value)), _min_value, _max_value)
    IN  IF _log THEN NpExp(v) ELSE v
\* value(f), lines 61-68.
value(f) ==
    LET v == NpClip(NumAdd(NumMul(f, NumSub(_max_value, _min_value)), _min_value),
                    _min_value, _max_value)
    IN  IF _log THEN NpExp(v) ELSE v

\* A direct call of value(f); the arithmetic on a None bound raises TypeError.
Value ==
    /\ ppc = "ready"
    /\ \E f \in Fracs :
        lastCall' = IF HasRange
                    THEN [NoCall EXCEPT !.op = "value", !.num = f, !.ret = value(f)]
                    ELSE [NoCall EXCEPT !.op = "value", !.num = f, !.err = "TypeError"]
    /\ UNCHANGED <<ppc, kwargs, _min_value, _max_value, _value, _log, _reference_value,
                   _clipped_warning, printed, clipChanged, prevReq, lastReq, nReq>>

\* fraction(value, clip), lines 72-74: the unclipped fraction.
FractionRaw(v) ==
    LET x == IF _log THEN NpLog(v) ELSE v
    IN  NumDiv(NumSub(x, _min_value), NumSub(_max_value, _min_value))
\* lines 75-77: the fraction returned.
FractionRet(v, clip) ==
    IF clip THEN NpClip(FractionRaw(v), Zero, One) ELSE FractionRaw(v)
\* A faulty variant of FractionWarns: the one-shot flag not consulted
FractionWarns_EveryClip(v, clip) ==
    clip /\ FractionRet(v, clip) # FractionRaw(v)
\* line 78: whether this call warns.
FractionWarns(v, clip) ==
    clip /\ FractionRet(v, clip) # FractionRaw(v) /\ ~_clipped_warning

Fraction ==
    /\ ppc = "ready"
    /\ printed.parameter_clipped < MaxMessages
    /\ \E v \in ValInputs, clip \in BOOLEAN :
        IF HasRange
        THEN /\ lastCall' = [NoCall EXCEPT !.op = "fraction", !.num = v, !.flag = clip,
                                           !.ret = FractionRet(v, clip),
                                           !.of = FractionRaw(v),
                                           !.warned = FractionWarns(v, clip)]
             /\ _clipped_warning' = (_clipped_warning \/ FractionWarns(v, clip))
             /\ printed' = [printed EXCEPT !.parameter_clipped =
                               @ + (IF FractionWarns(v, clip) THEN 1 ELSE 0)]
             /\ clipChanged' = (clipChanged \/
                                  (clip /\ (NumLt(FractionRaw(v), Zero)
                                            \/ NumLt(One, FractionRaw(v)))))
        ELSE /\ lastCall' = [NoCall EXCEPT !.op = "fraction", !.num = v, !.flag = clip,
                                           !.err = "TypeError"]
             /\ UNCHANGED <<_clipped_warning, printed, clipChanged>>
    /\ UNCHANGED <<ppc, kwargs, _min_value, _max_value, _value, _log, _reference_value,
                   prevReq, lastReq, nReq>>

\* A faulty variant of Output: the reference key put first
Output_ReferenceFirst(v) ==
    (IF _reference_value # None
     THEN <<<<"reference_" \o Name, _reference_value>>>> ELSE <<>>)
        \o <<<<Name, v>>>>
\* process, lines 104-108: the ordered output for a value.
Output(v) ==
    <<<<Name, v>>>> \o
        (IF _reference_value # None
         THEN <<<<"reference_" \o Name, _reference_value>>>> ELSE <<>>)
\* A faulty variant of ProcessOut: a free parameter samples even when its name is supplied
ProcessOut_FreeOverwrites(nameIn, f) ==
    IF _min_value = None \/ _max_value = None
    THEN (IF nameIn THEN <<>> ELSE Output(_value))
    ELSE Output(value(f))
\* process(**kwargs), lines 94-108; nameIn: self._name in kwargs, f: kwargs['fraction'].
ProcessOut(nameIn, f) ==
    IF nameIn \/ _min_value = None \/ _max_value = None
    THEN (IF nameIn THEN <<>> ELSE Output(_value))
    ELSE Output(value(f))

Process ==
    /\ ppc = "ready"
    /\ \E nameIn \in BOOLEAN, f \in Fracs :
        lastCall' = [NoCall EXCEPT !.op = "process", !.num = f, !.flag = nameIn,
                                   !.out = ProcessOut(nameIn, f)]
    /\ UNCHANGED <<ppc, kwargs, _min_value, _max_value, _value, _log, _reference_value,
                   _clipped_warning, printed, clipChanged, prevReq, lastReq, nReq>>

\* A faulty variant of NewReference: the last entry of the mapping kept, not the first
NewReference_LastEntry(req) ==
    IF Len(req) # 0 THEN req[Len(req)][2] ELSE _reference_value
\* receive_requests(**requests), lines 113-115.
NewReference(req) == IF Len(req) # 0 THEN req[1][2] ELSE _reference_value

ReceiveRequests(maps) ==
    /\ ppc = "ready"
    /\ \E req \in maps :
        /\ _reference_value' = NewReference(req)
        /\ prevReq' = lastReq
        /\ lastReq' = req
        /\ nReq' = IF nReq < 2 THEN nReq + 1 ELSE 2
        /\ lastCall' = [NoCall EXCEPT !.op = "receive_requests"]
    /\ UNCHANGED <<ppc, kwargs, _min_value, _max_value, _value, _log,
                   _clipped_warning, printed, clipChanged>>

ParameterInit ==
    /\ ppc = "new"
    /\ kwargs = [min_value |-> None, max_value |-> None, value |-> None, log |-> FALSE]
    /\ _min_value = None
    /\ _max_value = None
    /\ _value = None
    /\ _log = FALSE
    /\ _reference_value = None
    /\ _clipped_warning = FALSE
    /\ printed = [min_max_same |-> 0, parameter_clipped |-> 0]
    /\ lastCall = NoCall
    /\ clipChanged = FALSE
    /\ prevReq = <<>>
    /\ lastReq = <<>>
    /\ nReq = 0

---------------------------------------------------------------------------
(* Blackbody: mosfit/modules/seds/blackbody.py *)

MaxEpochs == 3      \* epochs of one process() call
MaxCalls == 2       \* process() calls on the instance

\* self._sample_wavelengths, set by the caller per band: the grid length of band
\* 0 and of band 1.
SampleWavelengths == <<3, 2>>
BandIndices == {-1, 0, 1}          \* -1: a frequency-indexed epoch
Luminosities == {0, 1}             \* 0.0, and a luminosity that is not zero

\* One epoch of kwargs: its luminosity and its band index.
EpochInputs == [lum : Luminosities, bi : BandIndices]
Batches == UNION {[1 .. n -> EpochInputs] : n \in 0 .. MaxEpochs}

\* The operand of epoch i (0-based) of call c: radius, temperature, frequency.
Operand(c, i) == <<c, i>>
NoOperand == <<0, 0>>

\* A faulty variant of ZeroSpectrum: [0.0] whatever the band
ZeroSpectrum_Scalar(bi) ==
    [kind |-> "zeros", type |-> "list", len |-> 1,
     compiled |-> FALSE, radius |-> NoOperand, temperature |-> NoOperand,
     frequency |-> NoOperand, to_fnu |-> FALSE]
\* lines 43-47: the spectrum of a zero-luminosity epoch.
ZeroSpectrum(bi) ==
    IF bi >= 0
    THEN [kind |-> "zeros", type |-> "ndarray", len |-> SampleWavelengths[bi + 1],
          compiled |-> FALSE, radius |-> NoOperand, temperature |-> NoOperand,
          frequency |-> NoOperand, to_fnu |-> FALSE]
    ELSE [kind |-> "zeros", type |-> "list", len |-> 1,
          compiled |-> FALSE, radius |-> NoOperand, temperature |-> NoOperand,
          frequency |-> NoOperand, to_fnu |-> FALSE]

\* lines 49-53: rest_wavs, an array over the band's grid or a one-element list.
RestWavs(bi, i) ==
    IF bi >= 0
    THEN [type |-> "ndarray", len |-> SampleWavelengths[bi + 1], frequency |-> NoOperand]
    ELSE [type |-> "list", len |-> 1, frequency |-> _frequencies[i + 1]]

\* lines 55-63: ne.evaluate / ne.re_evaluate on the loop's operands, an array of
\* rest_wavs' length; it compiles when evaled is not set.
Evaluate(rest_wavs, i) ==
    [kind |-> "planck", type |-> "ndarray", len |-> rest_wavs.len,
     compiled |-> ~evaled, radius |-> _radius_phot[i + 1],
     temperature |-> _temperature_phot[i + 1], frequency |-> rest_wavs.frequency,
     to_fnu |-> FALSE]

\* line 66, rest_wavs**2: defined on an array; a Python list has no ** (TypeError).
PowRaises(rest_wavs) == rest_wavs.type = "list"

\* A faulty variant of ResetSeds: the list kept on the instance across calls
ResetSeds_Kept == seds
\* lines 26-38: the call's start.
ResetSeds == <<>>
ResetEvaled == FALSE

BeginProcess ==
    /\ bpc = "idle"
    /\ ncall < MaxCalls
    /\ \E batch \in Batches :
        /\ _luminosities' = [i \in 1 .. Len(batch) |-> batch[i].lum]
        /\ _band_indices' = [i \in 1 .. Len(batch) |-> batch[i].bi]
        /\ _frequencies' = [i \in 1 .. Len(batch) |-> Operand(ncall + 1, i - 1)]
        /\ _radius_phot' = [i \in 1 .. Len(batch) |-> Operand(ncall + 1, i - 1)]
        /\ _temperature_phot' = [i \in 1 .. Len(batch) |-> Operand(ncall + 1, i - 1)]
    /\ seds' = ResetSeds
    /\ evaled' = ResetEvaled
    /\ li' = 0
    /\ ncall' = ncall + 1
    /\ handed' = <<>>
    /\ nPlanck' = 0
    /\ prevLen' = IF ncall = 0 THEN -1 ELSE Len(_luminosities)
    /\ bpc' = "loop"
    /\ UNCHANGED pvars

\* lines 43-48: an epoch of luminosity 0.0.
ZeroEpoch ==
    /\ bpc = "loop"
    /\ li < Len(_luminosities)
    /\ _luminosities[li + 1] = 0
    /\ seds' = Append(seds, ZeroSpectrum(_band_indices[li + 1]))
    /\ li' = li + 1
    /\ UNCHANGED <<bpc, _luminosities, _band_indices, _frequencies, _radius_phot,
                   _temperature_phot, evaled, ncall, handed, nPlanck, prevLen>>
    /\ UNCHANGED pvars

\* lines 49-69: an epoch of luminosity other than 0.0.  Nothing in process()
\* handles the TypeError of line 66: it leaves the call, and the run ends there.
PlanckEpoch ==
    /\ bpc = "loop"
    /\ li < Len(_luminosities)
    /\ _luminosities[li + 1] # 0
    /\ LET bi == _band_indices[li + 1]
           rest_wavs == RestWavs(bi, li)
           sed == Evaluate(rest_wavs, li)
       IN  /\ evaled' = TRUE
           /\ nPlanck' = nPlanck + 1
           /\ IF bi < 0 /\ PowRaises(rest_wavs)
              THEN /\ bpc' = "raised"
                   /\ UNCHANGED <<seds, li>>
              ELSE /\ seds' = Append(seds, [sed EXCEPT !.to_fnu = (bi < 0)])
                   /\ li' = li + 1
                   /\ bpc' = "loop"
    /\ UNCHANGED <<_luminosities, _band_indices, _frequencies, _radius_phot,
                   _temperature_phot, ncall, handed, prevLen>>
    /\ UNCHANGED pvars

\* line 71: the loop is over, the fresh spectra go to add_to_existing_seds.
Merge ==
    /\ bpc = "loop"
    /\ li = Len(_luminosities)
    /\ handed' = seds
    /\ bpc' = "merge"
    /\ UNCHANGED <<_luminosities, _band_indices, _frequencies, _radius_phot,
                   _temperature_phot, seds, evaled, li, ncall, nPlanck, prevLen>>
    /\ UNCHANGED pvars

\* line 73.
Return ==
    /\ bpc = "merge"
    /\ bpc' = "idle"
    /\ UNCHANGED <<_luminosities, _band_indices, _frequencies, _radius_phot,
                   _temperature_phot, seds, evaled, li, ncall, handed, nPlanck, prevLen>>
    /\ UNCHANGED pvars

BlackbodyInit ==
    /\ bpc = "idle"
    /\ _luminosities = <<>>
    /\ _band_indices = <<>>
    /\ _frequencies = <<>>
    /\ _radius_phot = <<>>
    /\ _temperature_phot = <<>>
    /\ seds = <<>>
    /\ evaled = FALSE
    /\ li = 0
    /\ ncall = 0
    /\ handed = <<>>
    /\ nPlanck = 0
    /\ prevLen = -1

---------------------------------------------------------------------------
(* Specifications *)

Init == ParameterInit /\ BlackbodyInit

\* A Parameter under every constructor call and every method.
NextParameter ==
    \/ Construct(KwAll) /\ UNCHANGED bvars
    \/ FixValue /\ UNCHANGED bvars
    \/ Value /\ UNCHANGED bvars
    \/ Fraction /\ UNCHANGED bvars
    \/ Process /\ UNCHANGED bvars
    \/ ReceiveRequests(ReqFew) /\ UNCHANGED bvars
SpecParameter == Init /\ [][NextParameter]_vars

\* A Parameter's reference-value mailbox under every request mapping.
NextMailbox ==
    \/ Construct(KwMailbox) /\ UNCHANGED bvars
    \/ Process /\ UNCHANGED bvars
    \/ ReceiveRequests(ReqMaps) /\ UNCHANGED bvars
SpecMailbox == Init /\ [][NextMailbox]_vars

\* A Blackbody instance under repeated process() calls.
NextBlackbody ==
    \/ BeginProcess
    \/ ZeroEpoch
    \/ PlanckEpoch
    \/ Merge
    \/ Return
SpecBlackbody == Init /\ [][NextBlackbody]_vars

---------------------------------------------------------------------------
(* The claims *)

RefKey == "reference_" \o Name
Constructed == ppc = "ready"
JustConstructed == ppc = "ready" /\ lastCall.op = "__init__"
NonPositive(b) == b # None /\ NumLe(b, Zero)
Positive(b) == b # None /\ NumLt(Zero, b)
In01(f) == NumLe(Zero, f) /\ NumLe(f, One)
ProcessedWithoutName == lastCall.op = "process" /\ ~lastCall.flag
\* An output's entries after the first, and the entries that surface a value v.
RefPart(out) == SubSeq(out, 2, Len(out))
Surfaced(v) == IF v = None THEN <<>> ELSE <<<<RefKey, v>>>>

\* C1: a Parameter constructed with min_value and max_value both given and equal,
\* and no 'value' argument, is fixed at that min_value: right after construction
\* its value is min_value, both bounds are None, and process without the name in
\* its input returns {name: min_value}.
C1_EqualBoundsFixAtMin ==
    (JustConstructed /\ SameBounds(kwargs) /\ kwargs.value = None)
        => /\ _value = kwargs.min_value
           /\ _min_value = None
           /\ _max_value = None
           /\ \A f \in Fracs : ProcessOut(FALSE, f) = <<<<Name, kwargs.min_value>>>>

\* C2 (as stated): with log set, construction raises whenever a supplied bound
\* (min_value or max_value) is not strictly positive; no Parameter with log set and
\* a non-positive supplied bound is ever constructed.
C2_LogRaisesOnAnyNonPositiveBound ==
    (ppc # "new" /\ kwargs.log
        /\ (NonPositive(kwargs.min_value) \/ NonPositive(kwargs.max_value)))
        => ppc = "raised"

\* C2 (amended): with log set, construction raises exactly when both bounds are
\* supplied, they differ, and one of them is not strictly positive (a parameter
\* given one bound, or two equal bounds, is fixed and is constructed whatever the
\* sign); no constructed Parameter with log set keeps a range that came from a
\* non-positive bound, and the range it keeps is the natural log of the bounds.
C2_LogRaisesOnNonPositiveRange ==
    /\ ppc # "new" =>
          (ppc = "raised" <=>
              /\ kwargs.log
              /\ kwargs.min_value # None /\ kwargs.max_value # None
              /\ kwargs.min_value # kwargs.max_value
              /\ (NonPositive(kwargs.min_value) \/ NonPositive(kwargs.max_value)))
    /\ (JustConstructed /\ _log /\ HasRange) =>
          /\ Positive(kwargs.min_value) /\ Positive(kwargs.max_value)
          /\ NpExp(_min_value) = kwargs.min_value
          /\ NpExp(_max_value) = kwargs.max_value

C2_Witness ==
    /\ ppc = "raised" /\ kwargs.log
    /\ kwargs.min_value = Rat(-1, 1) /\ kwargs.max_value = Rat(4, 1)

\* C3: process called with the parameter's own name in its input returns the
\* empty mapping, whatever the parameter's state and the fraction.
C3_NamePresentReturnsEmpty ==
    (lastCall.op = "process" /\ lastCall.flag) => lastCall.out = <<>>

C3_Witness ==
    /\ lastCall.op = "process" /\ lastCall.flag
    /\ HasRange /\ _log /\ _reference_value # None
    /\ lastCall.num = Rat(1, 2)

C5_LatestCallReflected ==
    (ProcessedWithoutName /\ nReq = 2 /\ lastReq # prevReq)
        => /\ Len(lastReq) > 0
           /\ RefPart(lastCall.out) = <<<<RefKey, lastReq[1][2]>>>>

\* C5 (amended): after two receive_requests calls with different mappings, the
\* next process output reflects the first entry of the most recent call whose
\* mapping was not empty: reference_<name> maps to that entry, and is absent when
\* that entry is None.  An empty mapping changes nothing, so after a call with an
\* empty mapping the earlier call's first entry is still the one reflected.
C5_LatestNonEmptyCallReflected ==
    (ProcessedWithoutName /\ nReq = 2 /\ lastReq # prevReq)
        => RefPart(lastCall.out) =
              (IF Len(lastReq) > 0 THEN Surfaced(lastReq[1][2])
               ELSE Surfaced(prevReq[1][2]))

C5_Witness ==
    /\ ProcessedWithoutName /\ nReq = 2
    /\ Len(prevReq) = 2 /\ Len(lastReq) = 2
    /\ prevReq[1][2] = Rat(1, 1) /\ lastReq[1][2] = Rat(2, 1) /\ lastReq[2][2] = Rat(1, 1)
    /\ RefPart(lastCall.out) = <<<<RefKey, Rat(2, 1)>>>>

\* C6: over any sequence of fraction calls on one instance the parameter_clipped
\* warning is emitted at most once: on the first call with clip=True whose result
\* the clip to [0,1] changes.  The flag clipped_warning is set by that call and
\* never reset; a call with clip=False, or whose result lies in [0,1], never warns.
C6_ClipWarnedOnce ==
    /\ printed.parameter_clipped = (IF clipChanged THEN 1 ELSE 0)
    /\ _clipped_warning = clipChanged
    /\ (lastCall.op = "fraction" /\ lastCall.warned)
          => (lastCall.flag /\ ~In01(lastCall.of) /\ In01(lastCall.ret))
    /\ (lastCall.op = "fraction" /\ lastCall.err = "" /\ ~lastCall.flag)
          => lastCall.ret = lastCall.of

C6_Witness ==
    /\ lastCall.op = "fraction" /\ lastCall.flag
    /\ ~In01(lastCall.of) /\ ~lastCall.warned
    /\ printed.parameter_clipped = 1

\* C7 (as stated): for a non-log Parameter with both bounds set and every f in
\* [0,1], fraction(value(f), clip=False) = f.
C7_RoundTrip ==
    (lastCall.op = "value" /\ lastCall.err = "" /\ ~_log /\ HasRange
        /\ In01(lastCall.num))
        => FractionRet(lastCall.ret, FALSE) = lastCall.num

\* C7 (amended): for a non-log Parameter with both bounds set and
\* min_value < max_value, and every f in [0,1], fraction(value(f), clip=False) = f
\* (in exact arithmetic).
C7_RoundTripOrderedBounds ==
    (lastCall.op = "value" /\ lastCall.err = "" /\ ~_log /\ HasRange
        /\ NumLt(_min_value, _max_value) /\ In01(lastCall.num))
        => FractionRet(lastCall.ret, FALSE) = lastCall.num

C7_Witness ==
    /\ lastCall.op = "value" /\ ~_log
    /\ _min_value = Rat(-1, 1) /\ _max_value = Rat(4, 1)
    /\ lastCall.num = Rat(1, 2) /\ lastCall.ret = Rat(3, 2)

\* The epochs (1-based) of the current call that come before epoch i and have a
\* luminosity other than zero.
NonZeroBefore(i) == {j \in 1 .. i - 1 : _luminosities[j] # 0}
GridLen(bi) == IF bi >= 0 THEN SampleWavelengths[bi + 1] ELSE 1

\* C8: in every process call, whatever the calls before it, the list of fresh
\* spectra handed to the merge step has one entry per input epoch, entry i
\* computed for input epoch i of this call (its shape, and this call's radius and
\* temperature of that epoch); nothing of an earlier call is in it, and the
\* expression is compiled anew by the call's first non-zero epoch.
C8_FreshSpectraPerCall ==
    bpc = "merge" =>
        /\ Len(handed) = Len(_luminosities)
        /\ \A i \in 1 .. Len(handed) :
              /\ handed[i].len = GridLen(_band_indices[i])
              /\ handed[i].kind = (IF _luminosities[i] = 0 THEN "zeros" ELSE "planck")
              /\ _luminosities[i] # 0 =>
                    /\ handed[i].radius = <<ncall, i - 1>>
                    /\ handed[i].temperature = <<ncall, i - 1>>
                    /\ handed[i].compiled = (NonZeroBefore(i) = {})

C8_Witness ==
    /\ bpc = "merge" /\ ncall = 2
    /\ prevLen = 3 /\ Len(_luminosities) = 2 /\ Len(handed) = 2
    /\ handed[1].kind = "planck" /\ handed[2].kind = "planck"

\* C9: every epoch of luminosity exactly zero gets an all-zero spectrum, of the
\* length of its band's wavelength grid when its band index is >= 0 and the
\* one-element list [0.0] when it is frequency-indexed, and the Planck expression
\* is not evaluated for it, wherever it sits among the non-zero epochs.
C9_ZeroLuminosityIsZeros ==
    /\ Len(seds) <= Len(_luminosities)
    /\ \A i \in 1 .. Len(seds) :
          _luminosities[i] = 0 =>
              /\ seds[i].kind = "zeros"
              /\ ~seds[i].compiled
              /\ IF _band_indices[i] >= 0
                 THEN /\ seds[i].type = "ndarray"
                      /\ seds[i].len = SampleWavelengths[_band_indices[i] + 1]
                 ELSE /\ seds[i].type = "list"
                      /\ seds[i].len = 1
    /\ bpc = "loop" => Len(seds) = li /\ nPlanck = Cardinality(NonZeroBefore(li + 1))
    /\ bpc = "merge" => Len(handed) = Len(_luminosities) /\ handed = seds

C9_Witness ==
    /\ bpc = "merge"
    /\ _luminosities = <<1, 0, 1>>
    /\ _band_indices = <<1, 0, 1>>
    /\ handed[2].kind = "zeros" /\ handed[2].len = 3
    /\ handed[3].kind = "planck" /\ ~handed[3].compiled

\* C10: every frequency-indexed epoch (band index < 0) of non-zero luminosity is
\* processed to completion and contributes a spectrum of length 1, rescaled by
\* wavelength^2/c, so that a batch mixing band-indexed and frequency-indexed
\* non-zero epochs returns one spectrum per epoch.
C10_FrequencyEpochCompletes ==
    /\ bpc # "raised"
    /\ \A i \in 1 .. Len(seds) :
          (_luminosities[i] # 0 /\ _band_indices[i] < 0)
              => (seds[i].len = 1 /\ seds[i].to_fnu)
    /\ bpc = "merge" => Len(handed) = Len(_luminosities)

=============================================================================
